---------------------------- MODULE Spec2Model ----------------------------
(***************************************************************************)
(* Model of the word-frequency codec of hn-user-segmenter:                 *)
(*   - serialize_with_writer  (src/src/serializer.rs)                      *)
(*   - RGFileFormat::from_buf, deserialize, try_deserialize_Nov2022A,      *)
(*     try_deserialize_original, extract_user (src/src/serializer.rs)      *)
(*   - TextItem::ingest (src/src/text/text_item.rs) and the fold/reduce    *)
(*     aggregation of main (src/src/main.rs)                               *)
(*                                                                         *)
(* A byte is a number in 0..255, a Vec<u8> a sequence of bytes, a u64 a    *)
(* tuple of its 8 big-endian bytes (TLC's integers are 32 bits wide), a    *)
(* BTreeMap a function whose domain is the set of its keys.                *)
(***************************************************************************)
EXTENDS Integers, Sequences, FiniteSets, Bags, TLC

VARIABLES
    table,      \* the PooMap handed to serialize_with_writer
    sink,       \* the bytes the writer has received
    writer,     \* the writer: the room it has left, whether a write failed
    abuf,       \* serialize_with_writer's per-author buffer
    encPc,      \* position of serialize_with_writer
    encI,       \* number of authors written (the local i)
    encW,       \* number of entries of the current author appended to abuf
    feedback,   \* FnFeedback events emitted by serialize_with_writer
    buf,        \* the decompressed file contents handed to the readers
    op,         \* the last reader that ran on buf
    user,       \* the identifier given to extract_user
    result,     \* what the last reader returned (or that it panicked)
    damage,     \* where a spurious marker pair was put into buf, if any
    pending,    \* aggregation: bag of records the source has not yielded yet
    folded,     \* aggregation: bag of records already folded into a chunk
    chunks,     \* aggregation: bag of the accumulators of the fold chunks
    reduced,    \* aggregation: the table reduce returned to ingest
    mergePc,    \* aggregation: position of main
    ti,         \* aggregation: TextItem.word_freqs
    overflowChecks \* build profile: u64 += panics on overflow, or wraps

vars == <<table, sink, writer, abuf, encPc, encI, encW, feedback, buf, op, user,
          result, damage, pending, folded, chunks, reduced, mergePc, ti, overflowChecks>>

codecVars == <<table, sink, writer, abuf, encPc, encI, encW, feedback, buf, op, user, result,
               damage>>
mergeVars == <<pending, folded, chunks, reduced, mergePc, ti, overflowChecks>>

---------------------------------------------------------------------------
(* Bytes and byte strings *)

Byte == 0..255

\* b"ragegun"
Magic == <<114, 97, 103, 101, 103, 117, 110>>

\* b"http"
HTTP_NEEDLE == <<104, 116, 116, 112>>

TagFreqU8 == 255
TagFreqU32 == 254
TagFreqU64 == 253
TagAuthor == 245
TagAuthorEnd == 244
TagEnd == 243

\* Rust's data[a..b] on a 0-based slice: defined when a <= b <= len
SliceOk(s, a, b) == a <= b /\ b <= Len(s)

Slice(s, a, b) == SubSeq(s, a + 1, b)

\* the 0-based element s[k]
At(s, k) == s[k + 1]

\* Vec<u8>'s Ord: lexicographic, a proper prefix is smaller
RECURSIVE BytesLess(_, _)
BytesLess(a, b) ==
    IF b = <<>> THEN FALSE
    ELSE IF a = <<>> THEN TRUE
    ELSE IF Head(a) # Head(b) THEN Head(a) < Head(b)
    ELSE BytesLess(Tail(a), Tail(b))

\* BTreeMap::iter: the keys in ascending order
RECURSIVE SortedKeys(_)
SortedKeys(S) ==
    IF S = {} THEN <<>>
    ELSE LET m == CHOOSE x \in S : \A y \in S \ {x} : BytesLess(x, y)
         IN <<m>> \o SortedKeys(S \ {m})

---------------------------------------------------------------------------
(* u32 / u64 as big-endian byte tuples *)

\* n.to_be_bytes() of a u32 below 2^31
BEBytes4(n) ==
    <<(n \div 16777216) % 256, (n \div 65536) % 256, (n \div 256) % 256, n % 256>>

\* (n as u64) for a small n
U64FromNat(n) == <<0, 0, 0, 0>> \o BEBytes4(n)

\* 255u64
U64_255 == <<0, 0, 0, 0, 0, 0, 0, 255>>

\* u32::MAX as u64
U64_U32MAX == <<0, 0, 0, 0, 255, 255, 255, 255>>

\* numeric <= on u64: big-endian tuples compare lexicographically
RECURSIVE LeqBE(_, _)
LeqBE(a, b) ==
    IF a = <<>> THEN TRUE
    ELSE IF Head(a) # Head(b) THEN Head(a) < Head(b)
    ELSE LeqBE(Tail(a), Tail(b))

\* (x as u8).to_be_bytes()
AsU8Bytes(x) == <<x[8]>>

\* (x as u32).to_be_bytes()
AsU32Bytes(x) == SubSeq(x, 5, 8)

\* (x as u64).to_be_bytes()
AsU64Bytes(x) == x

\* byte k (1 = most significant) of a + b, with the carry into it
RECURSIVE CarryInto(_, _, _)
CarryInto(a, b, k) ==
    IF k = 8 THEN 0
    ELSE (a[k + 1] + b[k + 1] + CarryInto(a, b, k + 1)) \div 256

\* a + b modulo 2^64, and whether the true sum exceeds u64::MAX
AddU64(a, b) ==
    [sum |-> [k \in 1..8 |-> (a[k] + b[k] + CarryInto(a, b, k)) % 256],
     overflow |-> (a[1] + b[1] + CarryInto(a, b, 1)) >= 256]

---------------------------------------------------------------------------
(* BTreeMap *)

EmptyMap == <<>>

\* BTreeMap::insert: the value of an existing key is replaced
MapInsert(m, k, v) ==
    [x \in (DOMAIN m) \cup {k} |-> IF x = k THEN v ELSE m[x]]


---------------------------------------------------------------------------
(* Input tables *)

\* most entries a per-author table of the codec runs holds
MaxWords == 2

alice == <<97, 108, 105, 99, 101>>
bob == <<98, 111, 98>>
eve == <<101, 118, 101>>

cat == <<99, 97, 116>>
dog == <<100, 111, 103>>
w12 == <<49, 50>>
w7 == <<55>>
xhttp == <<120, 104, 116, 116, 112>>

AuthorPool == <<alice, bob>>
WordPool == <<cat, dog, w12, w7, xhttp>>

\* 2, 300, 255, 256, 2^32 - 1, 2^32, 65280 (= 00 00 FF 00), 2^64 - 1
FreqPool ==
    << <<0, 0, 0, 0, 0, 0, 0, 2>>,
       <<0, 0, 0, 0, 0, 0, 1, 44>>,
       <<0, 0, 0, 0, 0, 0, 0, 255>>,
       <<0, 0, 0, 0, 0, 0, 1, 0>>,
       <<0, 0, 0, 0, 255, 255, 255, 255>>,
       <<0, 0, 0, 1, 0, 0, 0, 0>>,
       <<0, 0, 0, 0, 0, 0, 255, 0>>,
       <<255, 255, 255, 255, 255, 255, 255, 255>> >>

Range(s) == {s[k] : k \in DOMAIN s}

IndexOf(s, x) == CHOOSE k \in DOMAIN s : s[k] = x

\* the count given to word w of author a in the table of profile base
FreqOf(base, a, w) ==
    FreqPool[((base + IndexOf(AuthorPool, a) + IndexOf(WordPool, w) - 2) % Len(FreqPool)) + 1]

WordSets == {W \in SUBSET Range(WordPool) : Cardinality(W) <= MaxWords}

\* the tables the codec is run on: any authors, any word set per author
Tables ==
    UNION { UNION { { [a \in A |-> [w \in ws[a] |-> FreqOf(base, a, w)]]
                      : base \in 0..(Len(FreqPool) - 1) }
                    : ws \in [A -> WordSets] }
            : A \in SUBSET Range(AuthorPool) }

---------------------------------------------------------------------------
(* serialize_with_writer *)

\* EncodeFreq with the first guard written freq < 255
EncodeFreqStrict(freq) ==
    IF freq # U64_255 /\ LeqBE(freq, U64_255)
        THEN AsU8Bytes(freq) \o <<TagFreqU8, 0>>
    ELSE IF LeqBE(freq, U64_U32MAX)
        THEN AsU32Bytes(freq) \o <<TagFreqU32, 0>>
    ELSE AsU64Bytes(freq) \o <<TagFreqU64, 0>>

\* the match on *freq: payload bytes followed by the frequency marker pair
EncodeFreq(freq) ==
    IF LeqBE(freq, U64_255)
        THEN AsU8Bytes(freq) \o <<TagFreqU8, 0>>
    ELSE IF LeqBE(freq, U64_U32MAX)
        THEN AsU32Bytes(freq) \o <<TagFreqU32, 0>>
    ELSE AsU64Bytes(freq) \o <<TagFreqU64, 0>>

\* serbuf: the (author, freqs) pairs in key order
Serbuf(data) == SortedKeys(DOMAIN data)

RECURSIVE SumLens(_, _)
SumLens(data, A) ==
    IF A = {} THEN 0
    ELSE LET a == CHOOSE x \in A : TRUE
         IN Cardinality(DOMAIN data[a]) + SumLens(data, A \ {a})

\* WordCount taking the number of authors for the number of entries
WordCountOfAuthors(data) == Cardinality(DOMAIN data)

\* serbuf.iter().map(|(_, v)| v.len()).sum::<usize>() as u64
WordCount(data) == SumLens(data, DOMAIN data)

\* a writer that never fails (a Vec<u8>, a file on a disk with room)
ReliableWriter == [limited |-> FALSE, room |-> 0, err |-> FALSE]

\* the writer takes all of bytes
Fits(bytes) == ~writer.limited \/ Len(bytes) <= writer.room

\* OrReturnErr with the error dropped: the encoder goes on after a failed write
OrReturnErrDropped(ok, nextPc) == nextPc

\* the ? after a write: on Err the function returns it at once
OrReturnErr(ok, nextPc) == IF ok THEN nextPc ELSE "failed"

\* writer.write_all(bytes)?: a writer out of room takes the bytes it has
\* room for and returns Err
WriteAll(bytes, nextPc) ==
    /\ sink' = sink \o (IF Fits(bytes) THEN bytes ELSE SubSeq(bytes, 1, writer.room))
    /\ writer' = IF Fits(bytes)
                     THEN [writer EXCEPT !.room = IF writer.limited
                                                      THEN writer.room - Len(bytes)
                                                      ELSE 0]
                     ELSE [writer EXCEPT !.room = 0, !.err = TRUE]
    /\ encPc' = OrReturnErr(Fits(bytes), nextPc)

EncBegin ==
    /\ encPc = "begin"
    /\ feedback' = <<<<"Message", "Saving: Writing authors..">>,
                     <<"Total", Len(Serbuf(table))>>>>
    /\ encI' = 0
    /\ encPc' = "magic"
    /\ UNCHANGED <<table, sink, writer, abuf, encW, buf, op, user, result, damage>>
    /\ UNCHANGED mergeVars

EncWriteMagic ==
    /\ encPc = "magic"
    /\ WriteAll(Magic, "version")
    /\ UNCHANGED <<table, abuf, encI, encW, feedback, buf, op, user, result, damage>>
    /\ UNCHANGED mergeVars

EncWriteVersion ==
    /\ encPc = "version"
    /\ WriteAll(BEBytes4(1), "authors")
    /\ UNCHANGED <<table, abuf, encI, encW, feedback, buf, op, user, result, damage>>
    /\ UNCHANGED mergeVars

EncWriteAuthorCount ==
    /\ encPc = "authors"
    /\ WriteAll(U64FromNat(Len(Serbuf(table))), "words")
    /\ UNCHANGED <<table, abuf, encI, encW, feedback, buf, op, user, result, damage>>
    /\ UNCHANGED mergeVars

EncWriteWordCount ==
    /\ encPc = "words"
    /\ WriteAll(U64FromNat(WordCount(table)), "author")
    /\ UNCHANGED <<table, abuf, encI, encW, feedback, buf, op, user, result, damage>>
    /\ UNCHANGED mergeVars

\* for (author, freqs) in serbuf: a fresh abuf holding author + [245, 0]
EncAuthorBegin ==
    /\ encPc = "author"
    /\ encI < Len(Serbuf(table))
    /\ abuf' = Serbuf(table)[encI + 1] \o <<TagAuthor, 0>>
    /\ encW' = 0
    /\ encPc' = "entries"
    /\ UNCHANGED <<table, sink, writer, encI, feedback, buf, op, user, result, damage>>
    /\ UNCHANGED mergeVars

\* for (word, freq) in freqs: word, payload and frequency marker pair
EncAppendEntry ==
    /\ encPc = "entries"
    /\ LET freqs == table[Serbuf(table)[encI + 1]]
           words == SortedKeys(DOMAIN freqs)
       IN /\ encW < Len(words)
          /\ abuf' = abuf \o words[encW + 1] \o EncodeFreq(freqs[words[encW + 1]])
    /\ encW' = encW + 1
    /\ UNCHANGED <<table, sink, writer, encPc, encI, feedback, buf, op, user, result, damage>>
    /\ UNCHANGED mergeVars

\* after the last entry: [244, 0], write_all(abuf)?, i += 1, progress
EncAuthorEnd ==
    /\ encPc = "entries"
    /\ encW = Cardinality(DOMAIN table[Serbuf(table)[encI + 1]])
    /\ WriteAll(abuf \o <<TagAuthorEnd, 0>>, "author")
    /\ IF encPc' = "failed"
           THEN UNCHANGED <<abuf, encI, feedback>>
           ELSE /\ abuf' = <<>>
                /\ encI' = encI + 1
                /\ feedback' = IF (encI + 1) % 1000 = 0
                                   THEN Append(feedback, <<"Progress", encI + 1>>)
                                   ELSE feedback
    /\ UNCHANGED <<table, encW, buf, op, user, result, damage>>
    /\ UNCHANGED mergeVars

\* after the last author: [243, 0], Ok(())
EncWriteEnd ==
    /\ encPc = "author"
    /\ encI = Len(Serbuf(table))
    /\ WriteAll(<<TagEnd, 0>>, "done")
    /\ UNCHANGED <<table, abuf, encI, encW, feedback, buf, op, user, result, damage>>
    /\ UNCHANGED mergeVars

---------------------------------------------------------------------------
(* Markers and frames *)

\* Marker::from_byte
MarkerFromByte(byte) ==
    CASE byte = TagFreqU8 -> "FreqU8"
      [] byte = TagFreqU32 -> "FreqU32"
      [] byte = TagFreqU64 -> "FreqU64"
      [] byte = TagAuthor -> "Author"
      [] byte = TagAuthorEnd -> "AuthorEnd"
      [] byte = TagEnd -> "End"
      [] OTHER -> "Unknown"

\* the marker the scanners see at position i: a zero preceded by a tag
MarkerAt(data, i) ==
    IF At(data, i) = 0 /\ i # 0 THEN MarkerFromByte(At(data, i - 1)) ELSE "Unknown"

IsFreqMarker(marker) == marker \in {"FreqU8", "FreqU32", "FreqU64"}

\* establish_freqs: frame.len() - n below zero, or an index past the frame,
\* panics (in a release build the wrapped index is out of range as well)
EstablishFreqs(marker, frame) ==
    LET n == Len(frame)
    IN CASE marker = "FreqU8" ->
              IF n < 2 THEN [panic |-> TRUE]
              ELSE [panic |-> FALSE,
                    freq |-> <<0, 0, 0, 0, 0, 0, 0, At(frame, n - 2)>>,
                    word_offset |-> 1]
         [] marker = "FreqU32" ->
              IF n < 5 THEN [panic |-> TRUE]
              ELSE [panic |-> FALSE,
                    freq |-> <<0, 0, 0, 0>> \o Slice(frame, n - 5, n - 1),
                    word_offset |-> 5]
         [] marker = "FreqU64" ->
              IF n < 9 THEN [panic |-> TRUE]
              ELSE [panic |-> FALSE,
                    freq |-> Slice(frame, n - 9, n - 1),
                    word_offset |-> 9]

\* word.windows(4).any(|w| w == HTTP_NEEDLE)
ContainsHttp(word) ==
    \E k \in 1..(Len(word) - Len(HTTP_NEEDLE) + 1) :
        SubSeq(word, k, k + Len(HTTP_NEEDLE) - 1) = HTTP_NEEDLE

\* (*w as char).is_ascii_digit()
IsAsciiDigit(b) == 48 <= b /\ b <= 57

\* !word.iter().any(|w| !is_ascii_digit(w)): true of the empty word as well
AllDigits(word) == \A k \in 1..Len(word) : IsAsciiDigit(word[k])

\* ShouldSkip without the all-digits filter
ShouldSkipHttpOnly(word) == ContainsHttp(word)

ShouldSkip(word) == ContainsHttp(word) \/ AllDigits(word)

\* the arm of a frequency marker in the Author state, shared by both scanners:
\* split the frame, filter the word, insert into the open table
InsertFreq(s, marker, frame) ==
    LET e == EstablishFreqs(marker, frame)
    IN IF e.panic THEN [s EXCEPT !.status = "panic"]
       ELSE LET word == Slice(frame, 0, Len(frame) - e.word_offset)
            IN IF ShouldSkip(word) THEN s
               ELSE [s EXCEPT !.freqs = MapInsert(s.freqs, word, e.freq)]

\* the locals of a scanner before its loop
ScanInit(fb) ==
    [i |-> 0, last_marker_pos |-> 0, state |-> "FindAuthor",
     author |-> <<>>, freqs |-> EmptyMap, skip |-> FALSE,
     freq_vec |-> EmptyMap, status |-> "run", ret |-> <<"None">>, fb |-> fb,
     trace |-> <<>>]

\* history of a scan: at a recognized marker, what the scanner was in (s),
\* the slice it took there as identifier or as frame (took, none or one),
\* and the record it has open after the step (t)
Recognized(s, t, marker, took) ==
    [t EXCEPT !.trace = Append(s.trace,
        [at |-> s.i, marker |-> marker, state |-> s.state, took |-> took,
         author |-> t.author, freqs |-> t.freqs, skip |-> t.skip])]

\* ReturnAtEnd that closes the author still open before it returns
ReturnAtEndClosingOpen(s) ==
    [s EXCEPT !.last_marker_pos = s.i, !.status = "ret",
              !.ret = IF s.state = "Author"
                          THEN MapInsert(s.freq_vec, s.author, s.freqs)
                          ELSE s.freq_vec]

\* Marker::End in either state: freq_vec is returned as it is
ReturnAtEnd(s) ==
    [s EXCEPT !.last_marker_pos = s.i, !.status = "ret", !.ret = s.freq_vec]

\* ReturnAtEof that treats the missing End marker as fatal: nothing decoded
ReturnAtEofEmpty(s) == [s EXCEPT !.status = "ret", !.ret = EmptyMap]

\* the end of the buffer without an End marker: a warning, freq_vec returned
ReturnAtEof(s) == [s EXCEPT !.status = "ret", !.ret = s.freq_vec]

\* if i % 1000 == 0 { fn_feedback(Progress(i)) }
Progress(s) ==
    IF s.i % 1000 = 0 THEN [s EXCEPT !.fb = Append(s.fb, <<"Progress", s.i>>)] ELSE s

---------------------------------------------------------------------------
(* try_deserialize_original *)

\* one iteration of the while loop
OriginalStep(data, s0) ==
    LET s == Progress(s0)
        i == s.i
        lmp == s.last_marker_pos
        marker == MarkerAt(data, i)
        next(t) == [t EXCEPT !.i = i + 1]
        after ==
            IF marker = "Unknown" THEN next(s)
            ELSE IF s.state = "FindAuthor" THEN
                CASE marker = "Author" ->
                       IF ~SliceOk(data, lmp, i - 1) THEN [s EXCEPT !.status = "panic"]
                       ELSE next([s EXCEPT !.state = "Author",
                                           !.author = Slice(data, lmp, i - 1),
                                           !.freqs = EmptyMap,
                                           !.skip = FALSE])
                  [] marker = "End" -> ReturnAtEnd(s)
                  [] OTHER -> next(s)
            ELSE IF ~SliceOk(data, lmp + 1, i - 1) THEN [s EXCEPT !.status = "panic"]
            ELSE LET frame == Slice(data, lmp + 1, i - 1)
                 IN CASE IsFreqMarker(marker) ->
                           LET t == InsertFreq([s EXCEPT !.last_marker_pos = i], marker, frame)
                           IN IF t.status = "panic" THEN t ELSE next(t)
                      [] marker = "Author" ->
                           IF ~SliceOk(data, lmp, i - 1) THEN [s EXCEPT !.status = "panic"]
                           ELSE next([s EXCEPT !.author = Slice(data, lmp, i - 1),
                                               !.freqs = EmptyMap,
                                               !.skip = FALSE])
                      [] marker = "AuthorEnd" ->
                           LET fv == MapInsert(s.freq_vec, s.author, s.freqs)
                           IN next([s EXCEPT !.last_marker_pos = i,
                                             !.freq_vec = fv,
                                             !.state = "FindAuthor",
                                             !.fb = Append(s.fb,
                                                      <<"Progress", Cardinality(DOMAIN fv)>>)])
                      [] marker = "End" -> ReturnAtEnd(s)
                      [] OTHER -> next(s)
        took ==
            IF after.status = "panic" THEN <<>>
            ELSE IF marker = "Author" THEN <<Slice(data, lmp, i - 1)>>
            ELSE IF s.state = "Author" /\ IsFreqMarker(marker)
                THEN <<Slice(data, lmp + 1, i - 1)>>
            ELSE <<>>
    IN IF marker = "Unknown" THEN after ELSE Recognized(s, after, marker, took)

\* the while loop, then the fall-through return of freq_vec
RECURSIVE OriginalLoop(_, _)
OriginalLoop(data, s) ==
    IF s.status # "run" THEN s
    ELSE IF s.i >= Len(data) THEN ReturnAtEof(s)
    ELSE OriginalLoop(data, OriginalStep(data, s))

\* try_deserialize_original(data, fn_feedback), continuing the feedback fb
TryDeserializeOriginal(data, fb) ==
    OriginalLoop(data, ScanInit(Append(fb, <<"Message", "Reading: Loading authors..">>)))

---------------------------------------------------------------------------
(* RGFileFormat, deserialize *)

\* RGFileFormat::from_byte
FormatFromByte(has_magic, version, authors, words) ==
    IF ~has_magic THEN [kind |-> "Unknown"]
    ELSE IF version = BEBytes4(1) THEN [kind |-> "Nov2022A", authors |-> authors, words |-> words]
    ELSE [kind |-> "Unknown"]

\* RGFileFormat::from_buf: data[10] .. data[26] are read whatever the magic
FormatFromBuf(data) ==
    IF Len(data) < 10 THEN [kind |-> "TooShort"]
    ELSE IF Len(data) < 27 THEN [kind |-> "panic"]
    ELSE FormatFromByte(Slice(data, 0, 7) = Magic,
                        Slice(data, 7, 11),
                        Slice(data, 11, 19),
                        Slice(data, 19, 27))

\* try_deserialize_Nov2022A: the scan of &data[28..]
TryDeserializeNov2022A(data, fb) ==
    IF ~SliceOk(data, 28, Len(data))
        THEN [ScanInit(fb) EXCEPT !.status = "panic"]
    ELSE TryDeserializeOriginal(Slice(data, 28, Len(data)), fb)

Deserialize(data) ==
    LET f == FormatFromBuf(data)
    IN CASE f.kind = "Nov2022A" ->
              TryDeserializeNov2022A(data,
                  <<<<"Message", "Loading: File format is Nov2022A", f.authors, f.words>>,
                    <<"Total", f.authors>>>>)
         [] f.kind = "Unknown" ->
              TryDeserializeOriginal(data,
                  <<<<"Message", "Loading: File format is unknown, assuming classic">>>>)
         [] f.kind = "TooShort" ->
              [ScanInit(<<<<"Message", "Loading: File is too short">>>>)
                  EXCEPT !.status = "ret", !.ret = EmptyMap]
         [] f.kind = "panic" ->
              [ScanInit(<<>>) EXCEPT !.status = "panic"]

---------------------------------------------------------------------------
(* extract_user *)

\* a UTF-8 continuation byte
IsCont(b) == 128 <= b /\ b <= 191

\* String::from_utf8(bytes).is_ok(): bytes[k..] is well-formed UTF-8
RECURSIVE Utf8From(_, _)
Utf8From(bytes, k) ==
    LET n == Len(bytes)
        b0 == bytes[k]
        cont(j) == k + j <= n /\ IsCont(bytes[k + j])
        second(lo, hi) == k + 1 <= n /\ lo <= bytes[k + 1] /\ bytes[k + 1] <= hi
    IN IF k > n THEN TRUE
       ELSE IF b0 <= 127 THEN Utf8From(bytes, k + 1)
       ELSE IF 194 <= b0 /\ b0 <= 223 THEN cont(1) /\ Utf8From(bytes, k + 2)
       ELSE IF b0 = 224 THEN second(160, 191) /\ cont(2) /\ Utf8From(bytes, k + 3)
       ELSE IF b0 = 237 THEN second(128, 159) /\ cont(2) /\ Utf8From(bytes, k + 3)
       ELSE IF 225 <= b0 /\ b0 <= 239 THEN cont(1) /\ cont(2) /\ Utf8From(bytes, k + 3)
       ELSE IF b0 = 240
           THEN second(144, 191) /\ cont(2) /\ cont(3) /\ Utf8From(bytes, k + 4)
       ELSE IF b0 = 244
           THEN second(128, 143) /\ cont(2) /\ cont(3) /\ Utf8From(bytes, k + 4)
       ELSE IF 241 <= b0 /\ b0 <= 243
           THEN cont(1) /\ cont(2) /\ cont(3) /\ Utf8From(bytes, k + 4)
       ELSE FALSE

IsUtf8(bytes) == Utf8From(bytes, 1)

\* Marker::AuthorEnd on the requested author: each word is printed through
\* String::from_utf8(word).unwrap(), then the table is returned at once
ReturnFound(s) ==
    IF \E word \in DOMAIN s.freqs : ~IsUtf8(word)
        THEN [s EXCEPT !.status = "panic"]
    ELSE [s EXCEPT !.status = "ret", !.ret = <<"Some", s.freqs>>]

ExtractStep(data, user_needle, s0) ==
    LET s == Progress(s0)
        i == s.i
        lmp == s.last_marker_pos
        marker == MarkerAt(data, i)
        next(t) == [t EXCEPT !.i = i + 1]
        after ==
            IF marker = "Unknown" THEN next(s)
            ELSE IF s.state = "FindAuthor" THEN
                CASE marker = "Author" ->
                       IF ~SliceOk(data, lmp + 1, i - 1) THEN [s EXCEPT !.status = "panic"]
                       ELSE next([s EXCEPT !.state = "Author",
                                           !.author = Slice(data, lmp + 1, i - 1),
                                           !.freqs = EmptyMap,
                                           !.skip = (Slice(data, lmp + 1, i - 1) # user_needle)])
                  [] marker = "End" ->
                       [s EXCEPT !.last_marker_pos = i, !.status = "ret", !.ret = <<"None">>]
                  [] OTHER -> next(s)
            ELSE IF ~SliceOk(data, lmp + 1, i - 1) THEN [s EXCEPT !.status = "panic"]
            ELSE LET frame == Slice(data, lmp + 1, i - 1)
                 IN CASE IsFreqMarker(marker) ->
                           IF s.skip THEN next([s EXCEPT !.last_marker_pos = i])
                           ELSE LET t == InsertFreq([s EXCEPT !.last_marker_pos = i], marker, frame)
                                IN IF t.status = "panic" THEN t ELSE next(t)
                      [] marker = "AuthorEnd" ->
                           IF ~s.skip THEN ReturnFound(s)
                           ELSE next([s EXCEPT !.last_marker_pos = i,
                                               !.freq_vec = MapInsert(s.freq_vec, s.author, s.freqs),
                                               !.state = "FindAuthor"])
                      [] marker = "End" ->
                           [s EXCEPT !.last_marker_pos = i, !.status = "ret", !.ret = <<"None">>]
                      [] OTHER -> next(s)
        took ==
            IF after.status = "panic" THEN <<>>
            ELSE IF s.state = "FindAuthor" /\ marker = "Author"
                THEN <<Slice(data, lmp + 1, i - 1)>>
            ELSE IF s.state = "Author" /\ IsFreqMarker(marker) /\ ~s.skip
                THEN <<Slice(data, lmp + 1, i - 1)>>
            ELSE <<>>
    IN IF marker = "Unknown" THEN after ELSE Recognized(s, after, marker, took)

RECURSIVE ExtractLoop(_, _, _)
ExtractLoop(data, user_needle, s) ==
    IF s.status # "run" THEN s
    ELSE IF s.i >= Len(data) THEN [s EXCEPT !.status = "ret", !.ret = <<"None">>]
    ELSE ExtractLoop(data, user_needle, ExtractStep(data, user_needle, s))

\* extract_user(data, user, fn_feedback)
ExtractUser(data, u) ==
    ExtractLoop(data, u,
        ScanInit(<<<<"Message", "Reading: Loading authors..">>, <<"Total", Len(data)>>>>))

---------------------------------------------------------------------------
(* The file between writer and readers, and the readers' calls *)

\* the identifiers extract_user is asked for: present ones and an absent one
UserPool == {alice, bob, eve}

\* run_for_file: the file the encoder wrote is read back whole
LoadFile ==
    /\ encPc = "done"
    /\ op = "none"
    /\ buf' = sink
    /\ op' = "loaded"
    /\ UNCHANGED <<table, sink, writer, abuf, encPc, encI, encW, feedback, user, result, damage>>
    /\ UNCHANGED mergeVars

\* a file of the legacy revision holding the same records: no header
LoadLegacyFile ==
    /\ encPc = "done"
    /\ op = "none"
    /\ buf' = Slice(sink, 27, Len(sink))
    /\ op' = "loaded"
    /\ UNCHANGED <<table, sink, writer, abuf, encPc, encI, encW, feedback, user, result, damage>>
    /\ UNCHANGED mergeVars

RunDeserialize ==
    /\ op = "loaded"
    /\ result' = Deserialize(buf)
    /\ op' = "deserialize"
    /\ UNCHANGED <<table, sink, writer, abuf, encPc, encI, encW, feedback, buf, user, damage>>
    /\ UNCHANGED mergeVars

RunDeserializeOriginal ==
    /\ op = "loaded"
    /\ result' = TryDeserializeOriginal(buf, <<>>)
    /\ op' = "original"
    /\ UNCHANGED <<table, sink, writer, abuf, encPc, encI, encW, feedback, buf, user, damage>>
    /\ UNCHANGED mergeVars

RunExtractUser(u) ==
    /\ op = "loaded"
    /\ user' = u
    /\ result' = ExtractUser(buf, u)
    /\ op' = "extract"
    /\ UNCHANGED <<table, sink, writer, abuf, encPc, encI, encW, feedback, buf, damage>>
    /\ UNCHANGED mergeVars

---------------------------------------------------------------------------
(* Specification of the codec: a table is written, read back and decoded *)

IdleMerge ==
    /\ pending = EmptyBag
    /\ folded = EmptyBag
    /\ chunks = EmptyBag
    /\ reduced = EmptyMap
    /\ mergePc = "idle"
    /\ ti = EmptyMap
    /\ overflowChecks = FALSE

InitCodecWith(T, W) ==
    /\ table \in T
    /\ sink = <<>>
    /\ writer \in W
    /\ abuf = <<>>
    /\ encPc = "begin"
    /\ encI = 0
    /\ encW = 0
    /\ feedback = <<>>
    /\ buf = <<>>
    /\ op = "none"
    /\ user = <<>>
    /\ result = ScanInit(<<>>)
    /\ damage = <<>>
    /\ IdleMerge

InitCodec(T) == InitCodecWith(T, {ReliableWriter})

Init == InitCodec(Tables)

Next ==
    \/ EncBegin
    \/ EncWriteMagic
    \/ EncWriteVersion
    \/ EncWriteAuthorCount
    \/ EncWriteWordCount
    \/ EncAuthorBegin
    \/ EncAppendEntry
    \/ EncAuthorEnd
    \/ EncWriteEnd
    \/ LoadFile
    \/ LoadLegacyFile
    \/ RunDeserialize
    \/ RunDeserializeOriginal
    \/ \E u \in UserPool : RunExtractUser(u)

Spec == Init /\ [][Next]_vars

---------------------------------------------------------------------------
(* Specification of the readers on a damaged file: one spurious marker     *)
(* pair is put inside one author record of the file before it is read      *)

\* most entries a per-author table of the damaged-file runs holds
MaxDamagedWords == 1

DamagedWordPool == <<cat, w7, xhttp>>

\* the tables of the damaged-file runs: the first profile of counts only
DamagedTables ==
    { T \in Tables :
        \A a \in DOMAIN T :
            /\ DOMAIN T[a] \subseteq Range(DamagedWordPool)
            /\ Cardinality(DOMAIN T[a]) <= MaxDamagedWords
            /\ \A w \in DOMAIN T[a] : T[a][w] = FreqOf(0, a, w) }

ReservedTags == {TagFreqU8, TagFreqU32, TagFreqU64, TagAuthor, TagAuthorEnd, TagEnd}

RECURSIVE EntriesLen(_, _)
EntriesLen(freqs, W) ==
    IF W = {} THEN 0
    ELSE LET w == CHOOSE x \in W : TRUE
         IN Len(w) + Len(EncodeFreq(freqs[w])) + EntriesLen(freqs, W \ {w})

\* the number of bytes of an author's record, both marker pairs included
RecordLen(data, a) == Len(a) + 2 + EntriesLen(data[a], DOMAIN data[a]) + 2

RECURSIVE RecordsLen(_, _)
RecordsLen(data, A) ==
    IF A = {} THEN 0
    ELSE LET a == CHOOSE x \in A : TRUE
         IN RecordLen(data, a) + RecordsLen(data, A \ {a})

\* the offset in a file of the first byte of author a's record
RecordStart(data, file, a) ==
    (Len(file) - 2 - RecordsLen(data, DOMAIN data))
        + RecordsLen(data, {b \in DOMAIN data : BytesLess(b, a)})

\* the file with the pair (tag, 0) put in front of the byte at offset pos
InsertPair(file, pos, tag) ==
    Slice(file, 0, pos) \o <<tag, 0>> \o Slice(file, pos, Len(file))

DamageFile(a, off, tag) ==
    /\ op = "loaded"
    /\ damage = <<>>
    /\ a \in DOMAIN table
    /\ off \in 1..(RecordLen(table, a) - 1)
    /\ LET pos == RecordStart(table, buf, a) + off
       IN /\ buf' = InsertPair(buf, pos, tag)
          /\ damage' = [author |-> a, pos |-> pos, tag |-> tag]
    /\ UNCHANGED <<table, sink, writer, abuf, encPc, encI, encW, feedback, op, user, result>>
    /\ UNCHANGED mergeVars

\* the longest record of the damaged-file runs bounds the offsets tried
DamageOffsets == 1..(5 + 2 + MaxDamagedWords * (5 + 8 + 2) + 2)

InitDamaged == InitCodec(DamagedTables)

NextDamaged ==
    \/ Next
    \/ \E a \in Range(AuthorPool), off \in DamageOffsets, tag \in ReservedTags :
           DamageFile(a, off, tag)

SpecDamaged == InitDamaged /\ [][NextDamaged]_vars

---------------------------------------------------------------------------
(* Merging tables: TextItem::ingest and the fold/reduce of main *)

RECURSIVE AddFreqsFromFreq(_, _, _)
\* AddFreqs with entry(word).or_insert(freq) in place of or_insert(0)
AddFreqsFromFreq(author_map, freqs, words) ==
    IF words = <<>> THEN [map |-> author_map, overflow |-> FALSE]
    ELSE LET word == Head(words)
             old == IF word \in DOMAIN author_map THEN author_map[word] ELSE freqs[word]
             add == AddU64(old, freqs[word])
             rest == AddFreqsFromFreq(MapInsert(author_map, word, add.sum), freqs, Tail(words))
         IN [map |-> rest.map, overflow |-> add.overflow \/ rest.overflow]

\* for (word, freq) in freqs: entry(word).or_insert(0).add_assign(freq);
\* words is what is left of the ordered iteration over freqs
RECURSIVE AddFreqs(_, _, _)
AddFreqs(author_map, freqs, words) ==
    IF words = <<>> THEN [map |-> author_map, overflow |-> FALSE]
    ELSE LET word == Head(words)
             old == IF word \in DOMAIN author_map THEN author_map[word] ELSE U64FromNat(0)
             add == AddU64(old, freqs[word])
             rest == AddFreqs(MapInsert(author_map, word, add.sum), freqs, Tail(words))
         IN [map |-> rest.map, overflow |-> add.overflow \/ rest.overflow]

\* entry(author).or_insert_with(PooMapInner::new), then the loop over freqs
AddAuthor(acc, author, freqs) ==
    LET author_map == IF author \in DOMAIN acc THEN acc[author] ELSE EmptyMap
        added == AddFreqs(author_map, freqs, SortedKeys(DOMAIN freqs))
    IN [map |-> MapInsert(acc, author, added.map), overflow |-> added.overflow]

\* for (author, freqs) in other.iter(): authors is what is left of it
RECURSIVE AddAll(_, _, _)
AddAll(acc, other, authors) ==
    IF authors = <<>> THEN [map |-> acc, overflow |-> FALSE]
    ELSE LET one == AddAuthor(acc, Head(authors), other[Head(authors)])
             rest == AddAll(one.map, other, Tail(authors))
         IN [map |-> rest.map, overflow |-> one.overflow \/ rest.overflow]

\* the fold closure of main: one (author, freqs) record into the accumulator
FoldStep(acc, record) == AddAuthor(acc, record.by, record.freqs)

\* ReduceStep with acc.insert(author, freqs) in place of the addition
ReduceStepInsert(acc, all_freqs) ==
    [map |-> [a \in (DOMAIN acc) \cup (DOMAIN all_freqs) |->
                 IF a \in DOMAIN all_freqs THEN all_freqs[a] ELSE acc[a]],
     overflow |-> FALSE]

\* the reduce closure of main: all_freqs into acc
ReduceStep(acc, all_freqs) == AddAll(acc, all_freqs, SortedKeys(DOMAIN all_freqs))

\* TextItem::ingest: other into self.word_freqs
Ingest(word_freqs, other) == AddAll(word_freqs, other, SortedKeys(DOMAIN other))

---------------------------------------------------------------------------
(* Specification of the aggregation: records are folded into the chunks    *)
(* of a parallel fold, the chunks are reduced pairwise in any order, and   *)
(* the reduced table is ingested into the TextItem                         *)

\* most records the source yields
MaxRecords == 3

\* most accumulators the parallel fold starts
MaxChunks == 2

One == U64FromNat(1)
Two == U64FromNat(2)
U64Max == <<255, 255, 255, 255, 255, 255, 255, 255>>

\* (i.by, TextItem::process_alt(i.text)) of the items of the source
RecordPool ==
    { [by |-> alice, freqs |-> (cat :> One)],
      [by |-> alice, freqs |-> (cat :> Two @@ dog :> One)],
      [by |-> bob, freqs |-> (cat :> One)],
      [by |-> bob, freqs |-> EmptyMap] }

RECURSIVE BagsOver(_, _)
\* the bags of at most n elements of S
BagsOver(S, n) ==
    IF n = 0 THEN {EmptyBag}
    ELSE LET smaller == BagsOver(S, n - 1)
         IN smaller \cup {b (+) SetToBag({x}) : b \in smaller, x \in S}

\* what a TextItem holds before ingest: nothing, or counts loaded earlier
SeedTables ==
    { EmptyMap,
      (alice :> (cat :> U64Max)),
      (alice :> (cat :> Two) @@ bob :> (dog :> U64Max)) }

InitMerge ==
    /\ pending \in BagsOver(RecordPool, MaxRecords)
    /\ folded = EmptyBag
    /\ chunks = EmptyBag
    /\ reduced = EmptyMap
    /\ mergePc = "build"
    /\ ti \in SeedTables
    /\ overflowChecks \in BOOLEAN
    /\ table = EmptyMap
    /\ sink = <<>>
    /\ writer = ReliableWriter
    /\ abuf = <<>>
    /\ encPc = "idle"
    /\ encI = 0
    /\ encW = 0
    /\ feedback = <<>>
    /\ buf = <<>>
    /\ op = "idle"
    /\ user = <<>>
    /\ result = ScanInit(<<>>)
    /\ damage = <<>>

\* a chunk of the parallel fold starts from the identity, PooMap::new()
StartChunk ==
    /\ mergePc = "build"
    /\ BagCardinality(pending) > 0
    /\ BagCardinality(chunks) < MaxChunks
    /\ chunks' = chunks (+) SetToBag({EmptyMap})
    /\ UNCHANGED <<pending, folded, reduced, mergePc, ti, overflowChecks>>
    /\ UNCHANGED codecVars

\* a chunk folds the next record the source yields
FoldRecord(acc, record) ==
    /\ mergePc = "build"
    /\ BagIn(acc, chunks)
    /\ BagIn(record, pending)
    /\ LET f == FoldStep(acc, record)
       IN IF f.overflow /\ overflowChecks
              THEN /\ mergePc' = "panicked"
                   /\ UNCHANGED <<pending, folded, chunks>>
              ELSE /\ chunks' = (chunks (-) SetToBag({acc})) (+) SetToBag({f.map})
                   /\ pending' = pending (-) SetToBag({record})
                   /\ folded' = folded (+) SetToBag({record})
                   /\ UNCHANGED mergePc
    /\ UNCHANGED <<reduced, ti, overflowChecks>>
    /\ UNCHANGED codecVars

\* two finished chunks are reduced into one
ReducePair(acc, all_freqs) ==
    /\ mergePc = "build"
    /\ BagCardinality(pending) = 0
    /\ BagIn(acc, chunks)
    /\ BagIn(all_freqs, chunks (-) SetToBag({acc}))
    /\ LET r == ReduceStep(acc, all_freqs)
       IN IF r.overflow /\ overflowChecks
              THEN /\ mergePc' = "panicked"
                   /\ UNCHANGED chunks
              ELSE /\ chunks' = ((chunks (-) SetToBag({acc})) (-) SetToBag({all_freqs}))
                                    (+) SetToBag({r.map})
                   /\ UNCHANGED mergePc
    /\ UNCHANGED <<pending, folded, reduced, ti, overflowChecks>>
    /\ UNCHANGED codecVars

\* reduce returns the last table (the identity if nothing was folded) and
\* ti.ingest merges it into the TextItem
IngestReduced ==
    /\ mergePc = "build"
    /\ BagCardinality(pending) = 0
    /\ BagCardinality(chunks) <= 1
    /\ LET last == IF chunks = EmptyBag THEN EmptyMap
                   ELSE CHOOSE t \in BagToSet(chunks) : TRUE
           g == Ingest(ti, last)
       IN /\ reduced' = last
          /\ IF g.overflow /\ overflowChecks
                 THEN /\ mergePc' = "panicked"
                      /\ UNCHANGED ti
                 ELSE /\ mergePc' = "done"
                      /\ ti' = g.map
    /\ UNCHANGED <<pending, folded, chunks, overflowChecks>>
    /\ UNCHANGED codecVars

NextMerge ==
    \/ StartChunk
    \/ \E acc \in BagToSet(chunks), record \in BagToSet(pending) : FoldRecord(acc, record)
    \/ \E acc \in BagToSet(chunks), all_freqs \in BagToSet(chunks) : ReducePair(acc, all_freqs)
    \/ IngestReduced

SpecMerge == InitMerge /\ [][NextMerge]_vars

---------------------------------------------------------------------------
(* Properties *)

\* the word holds the four bytes "http" in a row
HasHttp(w) ==
    \E k \in 1..(Len(w) - 3) :
        w[k] = 104 /\ w[k + 1] = 116 /\ w[k + 2] = 116 /\ w[k + 3] = 112

\* the word is one or more ASCII decimal digits and nothing else
OnlyDigits(w) == Len(w) > 0 /\ \A k \in 1..Len(w) : w[k] \in 48..57

\* no reserved tag byte followed by a zero
NoMarkerPair(bytes) ==
    \A k \in 1..(Len(bytes) - 1) : ~(bytes[k] \in ReservedTags /\ bytes[k + 1] = 0)

\* a table the round trip is promised for
CleanTable(T) ==
    \A a \in DOMAIN T :
        /\ NoMarkerPair(a)
        /\ \A w \in DOMAIN T[a] : NoMarkerPair(w) /\ ~HasHttp(w) /\ ~OnlyDigits(w)

\* the reader ran on the file exactly as the encoder wrote it
ReadBack == buf = sink /\ damage = <<>>

\* C1: round trip. For every table whose authors and words hold no marker
\* pair and whose words neither contain "http" nor are all digits,
\* deserialize of the bytes serialize_with_writer wrote returns the table.
C1_RoundTrip ==
    (op = "deserialize" /\ ReadBack /\ CleanTable(table))
        => (result.status = "ret" /\ result.ret = table)

\* C2: selective extraction equivalence. On the encoded table, extract_user
\* of a present author u returns the table deserialize holds under u, and
\* extract_user of an absent u returns None.
C2_ExtractEquivalence ==
    (op = "extract" /\ ReadBack)
        => LET d == Deserialize(buf)
           IN IF user \in DOMAIN table
                  THEN /\ result.status = "ret"
                       /\ d.status = "ret"
                       /\ user \in DOMAIN d.ret
                       /\ result.ret = <<"Some", d.ret[user]>>
                  ELSE result.status = "ret" /\ result.ret = <<"None">>

\* the first 7 bytes of the buffer are not the magic tag
LacksMagic(data) == Len(data) < 7 \/ Slice(data, 0, 7) # Magic

\* C5: legacy fallback. On every buffer that does not start with the magic,
\* also one shorter than 27 bytes, deserialize returns what
\* try_deserialize_original returns on it (stated for the buffers of 10
\* bytes and more: a shorter one is TooShort and decodes to the empty table).
C5_LegacyFallback ==
    (op = "deserialize" /\ LacksMagic(buf) /\ Len(buf) >= 10)
        => LET o == TryDeserializeOriginal(buf, <<>>)
           IN /\ result.status = o.status
              /\ o.status = "ret" => result.ret = o.ret

\* the decoder ran on the file: deserialize on one of the current revision,
\* try_deserialize_original on one of the legacy revision
DecoderRan ==
    \/ op = "deserialize" /\ ~LacksMagic(buf)
    \/ op = "original" /\ LacksMagic(buf)

\* got holds author a, with no word or count that T does not give a
LacksOnlyWords(got, T, a) ==
    /\ a \in DOMAIN got
    /\ \A w \in DOMAIN got[a] : w \in DOMAIN T[a] /\ got[a][w] = T[a][w]

\* C6: corruption tolerance. With one spurious marker pair put inside one
\* author record of the encoding of a valid table, the decoder returns a
\* table; it has the original's authors, every other author's table is
\* unchanged, and the damaged author's table only lacks words (at most the
\* one word of the frame the pair disrupted).
C6_CorruptionTolerance ==
    (DecoderRan /\ damage # <<>> /\ CleanTable(table))
        => /\ result.status = "ret"
           /\ DOMAIN result.ret = DOMAIN table
           /\ \A a \in DOMAIN table \ {damage.author} : result.ret[a] = table[a]
           /\ LacksOnlyWords(result.ret, table, damage.author)
           /\ Cardinality(DOMAIN table[damage.author]
                              \ DOMAIN result.ret[damage.author]) <= 1

\* C7: the scanners never abort. On every buffer try_deserialize_original
\* and extract_user run to completion and return.
C7_ScannersNeverAbort ==
    op \in {"original", "extract"} => result.status = "ret"

\* the tables a reader's result holds
ReturnedTables ==
    IF result.status # "ret" THEN {}
    ELSE IF op \in {"deserialize", "original"}
        THEN {result.ret[a] : a \in DOMAIN result.ret}
    ELSE IF op = "extract" /\ result.ret[1] = "Some" THEN {result.ret[2]}
    ELSE {}

\* C8: noise filtering. No word key of a table returned by deserialize,
\* try_deserialize_original or extract_user contains "http" or is made of
\* decimal digits only.
C8_NoiseFiltered ==
    \A t \in ReturnedTables : \A w \in DOMAIN t : ~HasHttp(w) /\ ~OnlyDigits(w)

\* C8 witness: a decode returned a table for a file whose record held the
\* digit word "7" after another word, or a word containing "http"
C8_Witness ==
    /\ op = "deserialize"
    /\ ReadBack
    /\ result.status = "ret"
    /\ result.ret # EmptyMap
    /\ \E a \in DOMAIN table : DOMAIN table[a] = {w12, w7}
    /\ \E a \in DOMAIN table : xhttp \in DOMAIN table[a]

\* what the format prescribes for frequency f: the narrowest of the three
\* payloads that holds f, big-endian, then the marker pair of that width
ExpectedFreqBytes(f) ==
    IF \A k \in 1..7 : f[k] = 0 THEN <<f[8], 255, 0>>
    ELSE IF \A k \in 1..4 : f[k] = 0 THEN <<f[5], f[6], f[7], f[8], 254, 0>>
    ELSE <<f[1], f[2], f[3], f[4], f[5], f[6], f[7], f[8], 253, 0>>

\* the k-th smallest byte string of S
Nth(S, k) == CHOOSE x \in S : Cardinality({y \in S : BytesLess(y, x)}) = k - 1

RECURSIVE ExpectedEntries(_, _)
\* the first n entries of a per-author table, in ascending word order
ExpectedEntries(freqs, n) ==
    IF n = 0 THEN <<>>
    ELSE LET w == Nth(DOMAIN freqs, n)
         IN ExpectedEntries(freqs, n - 1) \o w \o ExpectedFreqBytes(freqs[w])

\* C9: width boundary. Every entry the encoder appends to the author buffer
\* is the word, then 1 payload byte and (255, 0) exactly when f <= 255,
\* 4 payload bytes and (254, 0) exactly when 256 <= f <= 2^32 - 1, 8 payload
\* bytes and (253, 0) exactly when f >= 2^32; the payload is f, big-endian.
C9_WidthBoundary ==
    encPc = "entries"
        => LET a == Nth(DOMAIN table, encI + 1)
           IN abuf = a \o <<245, 0>> \o ExpectedEntries(table[a], encW)

\* C9 witness: the entries appended so far carry the counts 2^32 - 1 (four
\* payload bytes) and 2^32 (eight payload bytes)
C9_Witness ==
    /\ encPc = "entries"
    /\ encW = 2
    /\ LET freqs == table[Nth(DOMAIN table, encI + 1)]
       IN {freqs[w] : w \in DOMAIN freqs} = {FreqPool[5], FreqPool[6]}

RECURSIVE ExpectedRecords(_, _)
\* the records of the first n authors, in ascending author order
ExpectedRecords(T, n) ==
    IF n = 0 THEN <<>>
    ELSE LET a == Nth(DOMAIN T, n)
         IN ExpectedRecords(T, n - 1) \o a \o <<245, 0>>
                \o ExpectedEntries(T[a], Cardinality(DOMAIN T[a])) \o <<244, 0>>

\* the number of (author, word) entries of T
TotalEntries(T) == Cardinality({<<a, w>> \in UNION {{a} \X DOMAIN T[a] : a \in DOMAIN T} : TRUE})

\* C10: encoder layout. The bytes written are the magic, the version 1 in
\* 4 bytes, the number of authors in 8 bytes, the number of entries of all
\* authors in 8 bytes, every author's record in ascending key order, and
\* one End pair, with nothing after it.
C10_EncoderLayout ==
    encPc = "done"
        => sink = <<114, 97, 103, 101, 103, 117, 110>>
                    \o <<0, 0, 0, 1>>
                    \o <<0, 0, 0, 0, 0, 0, 0, Cardinality(DOMAIN table)>>
                    \o <<0, 0, 0, 0, 0, 0, 0, TotalEntries(table)>>
                    \o ExpectedRecords(table, Cardinality(DOMAIN table))
                    \o <<243, 0>>

\* C10 witness: the encoder finished a table of two authors with two
\* entries each
C10_Witness ==
    /\ encPc = "done"
    /\ DOMAIN table = {alice, bob}
    /\ \A a \in DOMAIN table : Cardinality(DOMAIN table[a]) = 2

\* merge(A, B): what ingest leaves in a TextItem holding A when given B; a
\* build with overflow checks aborts where a count passes u64::MAX
Merge(A, B) ==
    LET m == Ingest(A, B)
    IN IF m.overflow /\ overflowChecks THEN [panic |-> TRUE, map |-> EmptyMap]
       ELSE [panic |-> FALSE, map |-> m.map]

\* merge(X, B) where X is itself the outcome of a merge
MergeThen(X, B) == IF X.panic THEN X ELSE Merge(X.map, B)

\* merge(A, Y) where Y is itself the outcome of a merge
MergeAfter(A, Y) == IF Y.panic THEN Y ELSE Merge(A, Y.map)

\* the tables at hand in a state of the aggregation
MergeOperands == {ti, reduced} \cup BagToSet(chunks)

\* C3: merge is associative and commutative. For all tables A, B, C,
\* merge(merge(A,B),C) = merge(A,merge(B,C)) and merge(A,B) = merge(B,A),
\* entry by entry, for the addition ingest and the reduce step implement.
C3_MergeAssocComm ==
    \A A \in MergeOperands, B \in MergeOperands :
        /\ Merge(A, B) = Merge(B, A)
        /\ ReduceStep(A, B) = Ingest(A, B)
        /\ \A C \in MergeOperands :
               MergeThen(Merge(A, B), C) = MergeAfter(A, Merge(B, C))

\* C3 witness: three different tables that all count the same word of the
\* same author, one of them at u64::MAX
C3_Witness ==
    \E A \in MergeOperands, B \in MergeOperands, C \in MergeOperands :
        /\ A # B /\ B # C /\ A # C
        /\ \A T \in {A, B, C} : alice \in DOMAIN T /\ cat \in DOMAIN T[alice]
        /\ A[alice][cat] = U64Max

\* the value of a count below 2^24
SmallCount(u) == u[8] + 256 * u[7] + 65536 * u[6]

RECURSIVE SumOfCounts(_, _, _, _)
\* the sum, over the records of author a in bag b, of their counts of w
SumOfCounts(b, R, a, w) ==
    IF R = {} THEN 0
    ELSE LET r == CHOOSE x \in R : TRUE
             c == IF r.by = a /\ w \in DOMAIN r.freqs
                      THEN CopiesIn(r, b) * SmallCount(r.freqs[w]) ELSE 0
         IN c + SumOfCounts(b, R \ {r}, a, w)

\* table t gives every (author, word) of the records of bag b the sum of
\* its counts, and holds nothing else
IsSumOf(t, b) ==
    /\ DOMAIN t = {r.by : r \in BagToSet(b)}
    /\ \A a \in DOMAIN t :
           /\ DOMAIN t[a] = UNION {DOMAIN r.freqs : r \in {x \in BagToSet(b) : x.by = a}}
           /\ \A w \in DOMAIN t[a] :
                  t[a][w] = U64FromNat(SumOfCounts(b, BagToSet(b), a, w))

RECURSIVE SequentialFold(_, _)
\* all records of bag b folded one after the other into acc
SequentialFold(acc, b) ==
    IF b = EmptyBag THEN acc
    ELSE LET r == CHOOSE x \in BagToSet(b) : TRUE
         IN SequentialFold(FoldStep(acc, r).map, b (-) SetToBag({r}))

RECURSIVE ReduceAllWays(_)
\* every table the pairwise reduction of the accumulators of bag c can end
\* with, over all orders and groupings (the identity if there is none)
ReduceAllWays(c) ==
    IF c = EmptyBag THEN {EmptyMap}
    ELSE IF BagCardinality(c) = 1 THEN BagToSet(c)
    ELSE UNION { ReduceAllWays(((c (-) SetToBag({x})) (-) SetToBag({y}))
                                   (+) SetToBag({ReduceStep(x, y).map}))
                 : <<x, y>> \in {p \in BagToSet(c) \X BagToSet(c) :
                                    BagIn(p[2], c (-) SetToBag({p[1]}))} }

\* C4: chunk-parallel aggregation is partition- and order-independent. Once
\* every record is folded into some chunk, whatever the split, every order
\* and grouping of the pairwise reductions ends with the table that gives
\* each (author, word) the sum of its counts over the records, which is the
\* table a sequential fold of all records builds.
C4_AggregationOrderIndependent ==
    /\ (mergePc = "build" /\ pending = EmptyBag)
           => \A t \in ReduceAllWays(chunks) :
                  IsSumOf(t, folded) /\ t = SequentialFold(EmptyMap, folded)
    /\ mergePc = "done"
           => IsSumOf(reduced, folded) /\ reduced = SequentialFold(EmptyMap, folded)

\* C4 witness: all records are folded, split over two chunks that both
\* count the same word of the same author, and are still to be reduced
C4_Witness ==
    /\ mergePc = "build"
    /\ pending = EmptyBag
    /\ BagCardinality(folded) = 3
    /\ \E x \in BagToSet(chunks), y \in BagToSet(chunks) :
           /\ x # y
           /\ alice \in DOMAIN x /\ cat \in DOMAIN x[alice]
           /\ alice \in DOMAIN y /\ cat \in DOMAIN y[alice]

---------------------------------------------------------------------------
(* Format detection *)

\* the classification promised for a buffer: TooShort below 10 bytes, the
\* current revision for the magic followed by version 1, Unknown otherwise
PromisedKind(data) ==
    IF Len(data) < 10 THEN "TooShort"
    ELSE IF ~LacksMagic(data) /\ Len(data) >= 11 /\ Slice(data, 7, 11) = BEBytes4(1)
        THEN "Nov2022A"
    ELSE "Unknown"

\* C11: format detection is a total classification. On every buffer
\* RGFileFormat::from_buf returns TooShort, the current revision (with the
\* counts of the header) or Unknown as promised, and never fails, also on a
\* buffer of 10 to 26 bytes.
C11_FormatDetectionTotal ==
    (op = "deserialize")
        => LET f == FormatFromBuf(buf)
           IN /\ f.kind = PromisedKind(buf)
              /\ (f.kind = "Nov2022A" /\ Len(buf) >= 27)
                     => (f.authors = Slice(buf, 11, 19) /\ f.words = Slice(buf, 19, 27))

---------------------------------------------------------------------------
(* Specification of the scanners on arbitrary bytes: a buffer put together *)
(* from identifier bytes, word bytes and marker pairs in any order          *)

\* most pieces a buffer is put together from
MaxPieces == 4

\* identifier bytes "xa"; a word byte "c" followed by the payload byte 2
xa == <<120, 97>>
c2 == <<99, 2>>

PiecePool ==
    <<xa, c2, <<TagAuthor, 0>>, <<TagAuthorEnd, 0>>, <<TagEnd, 0>>, <<TagFreqU8, 0>>>>

RECURSIVE BuffersOf(_)
\* the buffers of at most n pieces
BuffersOf(n) ==
    IF n = 0 THEN {<<>>}
    ELSE LET shorter == BuffersOf(n - 1)
         IN shorter \cup {b \o p : b \in shorter, p \in Range(PiecePool)}

\* the identifiers extract_user is asked for on these buffers
ByteUsers == {<<97>>, xa}

InitBytes ==
    /\ table = EmptyMap
    /\ sink = <<>>
    /\ writer = ReliableWriter
    /\ abuf = <<>>
    /\ encPc = "idle"
    /\ encI = 0
    /\ encW = 0
    /\ feedback = <<>>
    /\ buf \in BuffersOf(MaxPieces)
    /\ op = "loaded"
    /\ user = <<>>
    /\ result = ScanInit(<<>>)
    /\ damage = <<>>
    /\ IdleMerge

NextBytes ==
    \/ RunDeserializeOriginal
    \/ \E u \in ByteUsers : RunExtractUser(u)

SpecBytes == InitBytes /\ [][NextBytes]_vars

\* C12: key invariant of decoded tables. Whatever the buffer, the table the
\* decoder returns holds no empty author identifier and no empty word key.
C12_NoEmptyKey ==
    (op \in {"deserialize", "original"} /\ result.status = "ret")
        => /\ <<>> \notin DOMAIN result.ret
           /\ \A a \in DOMAIN result.ret : <<>> \notin DOMAIN result.ret[a]

---------------------------------------------------------------------------
(* Specification of the encoder on a writer that runs out of room *)

\* most bytes a limited writer has room for
MaxRoom == 48

LimitedWriters == {[limited |-> TRUE, room |-> n, err |-> FALSE] : n \in 0..MaxRoom}

InitFailing == InitCodecWith(DamagedTables, LimitedWriters \cup {ReliableWriter})

SpecFailing == InitFailing /\ [][Next]_vars

\* a is a prefix of b
IsPrefix(a, b) == Len(a) <= Len(b) /\ SubSeq(b, 1, Len(a)) = a

\* C13: encoder failure. The step in which a write fails ends
\* serialize_with_writer with the error, keeps the bytes written before it
\* and emits no progress event; after it there is no write and no event.
C13_EncoderFailure ==
    [][ /\ writer'.err => /\ encPc' = "failed"
                          /\ IsPrefix(sink, sink')
                          /\ feedback' = feedback
        /\ writer.err => /\ sink' = sink
                         /\ feedback' = feedback
                         /\ encPc' = encPc ]_vars

\* C13 witness: the write of an author record failed part-way; the header
\* and the part of the record the writer had room for are in the sink
C13_Witness ==
    /\ writer.err
    /\ encPc = "failed"
    /\ Len(sink) > 27
    /\ sink # <<>> /\ IsPrefix(Magic, sink)

---------------------------------------------------------------------------
(* Header and frames *)

\* the bytes of the header serialize_with_writer writes: 7 + 4 + 8 + 8
HeaderLen == Len(Magic) + Len(BEBytes4(1)) + Len(U64FromNat(0)) + Len(U64FromNat(0))

\* C14: header alignment. On a buffer of the current revision deserialize
\* scans what follows the 27-byte header, from the first byte of the first
\* author record on, and a buffer that is the header alone decodes to the
\* empty table.
C14_HeaderAlignment ==
    (op = "deserialize" /\ FormatFromBuf(buf).kind = "Nov2022A")
        => LET records == TryDeserializeOriginal(Slice(buf, HeaderLen, Len(buf)), <<>>)
           IN /\ result.status = records.status
              /\ records.status = "ret" => result.ret = records.ret

\* the frame the format defines at the k-th recognized marker of a scan of
\* data: the bytes after the pad zero of the marker before it (from the
\* start of data if there is none) and before the tag byte
DefinedFrame(data, trace, k) ==
    Slice(data, IF k = 1 THEN 0 ELSE trace[k - 1].at + 1, trace[k].at - 1)

\* C15: frame definition. At every marker where try_deserialize_original or
\* extract_user takes an author identifier or a word frame, what it takes is
\* the bytes strictly between the marker recognized before and the tag byte.
C15_FrameDefinition ==
    (op \in {"original", "extract"} /\ damage = <<>> /\ CleanTable(table))
        => \A k \in DOMAIN result.trace :
               result.trace[k].took # <<>>
                   => result.trace[k].took[1] = DefinedFrame(buf, result.trace, k)

\* the payload bytes a frequency marker stands after
PayloadLen(marker) ==
    CASE marker = "FreqU8" -> 1
      [] marker = "FreqU32" -> 4
      [] marker = "FreqU64" -> 8

\* the u64 whose big-endian bytes, leading zeros dropped, are bytes
ZeroExtend(bytes) == [k \in 1..(8 - Len(bytes)) |-> 0] \o bytes

\* C16: frequency frame split. At every frequency marker where the decoder
\* or the extractor splits a frame, the count is the big-endian value of
\* the frame's last 1, 4 or 8 bytes and the word is the frame without them.
C16_FrequencyFrameSplit ==
    (op \in {"original", "extract"} /\ damage = <<>> /\ CleanTable(table))
        => \A k \in DOMAIN result.trace :
               LET e == result.trace[k]
               IN (IsFreqMarker(e.marker) /\ e.took # <<>>)
                      => LET frame == e.took[1]
                             n == PayloadLen(e.marker)
                             split == EstablishFreqs(e.marker, frame)
                         IN /\ Len(frame) >= n
                            /\ ~split.panic
                            /\ split.freq = ZeroExtend(Slice(frame, Len(frame) - n, Len(frame)))
                            /\ Slice(frame, 0, Len(frame) - split.word_offset)
                                   = Slice(frame, 0, Len(frame) - n)

\* C17: the extractor has the decoder's marker semantics in every state. An
\* Author marker recognized while an author record is open opens a new
\* author at once, in both scanners: a new identifier is taken, the open
\* table is empty, and the extractor's skip flag is computed against the
\* requested identifier.
C17_AuthorWhileOpen ==
    (op \in {"original", "extract"} /\ result.status = "ret")
        => \A k \in DOMAIN result.trace :
               LET e == result.trace[k]
               IN (e.marker = "Author" /\ e.state = "Author")
                      => /\ e.took # <<>>
                         /\ e.author = e.took[1]
                         /\ e.freqs = EmptyMap
                         /\ op = "extract" => e.skip = (e.author # user)

\* what may follow in a buffer after the point a scanner returned at
Continuations ==
    { <<>>, <<0>>, <<TagAuthorEnd, 0>>, bob \o <<TagAuthor, 0, TagAuthorEnd, 0>>,
      cat \o <<2, TagFreqU8, 0, TagEnd, 0>> }

\* C18: early termination of the extractor. Once an AuthorEnd marker closes
\* the record of the requested identifier, extract_user returns that
\* record's table and reads no further byte: the result is the same for
\* every continuation of the buffer, and no frame was split into a word
\* while a record of another identifier was open.
C18_EarlyTermination ==
    (op = "extract")
        => \A k \in DOMAIN result.trace :
               LET e == result.trace[k]
               IN /\ (IsFreqMarker(e.marker) /\ e.took # <<>>) => e.author = user
                  /\ (e.marker = "AuthorEnd" /\ e.state = "Author" /\ ~e.skip)
                         => /\ k = Len(result.trace)
                            /\ result.status = "ret"
                            /\ result.ret = <<"Some", e.freqs>>
                            /\ \A c \in Continuations :
                                   LET r == ExtractUser(Slice(buf, 0, e.at + 1) \o c, user)
                                   IN r.status = "ret" /\ r.ret = result.ret

\* the table of the authors that AuthorEnd markers closed among the first n
\* recognized markers of a scan, a later record of an identifier replacing
\* an earlier one
RECURSIVE ClosedBy(_, _)
ClosedBy(trace, n) ==
    IF n = 0 THEN EmptyMap
    ELSE LET e == trace[n]
             before == ClosedBy(trace, n - 1)
         IN IF e.marker = "AuthorEnd" /\ e.state = "Author"
                THEN MapInsert(before, e.author, e.freqs)
                ELSE before

\* the scan ended at a recognized End marker
EndedAtEnd(r) ==
    /\ r.status = "ret"
    /\ r.trace # <<>>
    /\ r.trace[Len(r.trace)].marker = "End"

\* C19: the End marker terminates the scan. At the first recognized End
\* marker, in either state, try_deserialize_original returns exactly the
\* authors closed by an AuthorEnd marker before it, without the author still
\* open, and no byte after the End pair bears on the result.
C19_EndTerminates ==
    (op = "original" /\ \E k \in DOMAIN result.trace : result.trace[k].marker = "End")
        => LET n == Len(result.trace)
               e == result.trace[n]
           IN /\ EndedAtEnd(result)
              /\ \A k \in 1..(n - 1) : result.trace[k].marker # "End"
              /\ result.ret = ClosedBy(result.trace, n)
              /\ \A c \in Continuations :
                     LET r == TryDeserializeOriginal(Slice(buf, 0, e.at + 1) \o c, <<>>)
                     IN r.status = "ret" /\ r.ret = result.ret

\* C19 witness: an End pair put into the second author's record ended the
\* scan with that author open, the first author closed, and bytes left
C19_Witness ==
    /\ op = "original"
    /\ damage # <<>> /\ damage.tag = TagEnd
    /\ EndedAtEnd(result)
    /\ result.trace[Len(result.trace)].state = "Author"
    /\ result.trace[Len(result.trace)].author \notin DOMAIN result.ret
    /\ result.ret # EmptyMap
    /\ result.trace[Len(result.trace)].at + 1 < Len(buf)

---------------------------------------------------------------------------
(* Delimiters in the encoder's output *)

Zeros(n) == [k \in 1..n |-> 0]

\* no author or word byte of T is a reserved tag byte
NoReservedByte(T) ==
    \A a \in DOMAIN T :
        /\ \A k \in DOMAIN a : a[k] \notin ReservedTags
        /\ \A w \in DOMAIN T[a] : \A k \in DOMAIN w : w[k] \notin ReservedTags

RECURSIVE EmittedInEntries(_, _)
\* per byte of the first n entries of a per-author table: 1 at the pad zero
\* of the frequency marker pair the encoder emitted, 0 elsewhere
EmittedInEntries(freqs, n) ==
    IF n = 0 THEN <<>>
    ELSE LET w == Nth(DOMAIN freqs, n)
         IN EmittedInEntries(freqs, n - 1)
                \o Zeros(Len(w) + Len(EncodeFreq(freqs[w])) - 2) \o <<0, 1>>

RECURSIVE EmittedInRecords(_, _)
\* the same per byte of the records of the first n authors
EmittedInRecords(T, n) ==
    IF n = 0 THEN <<>>
    ELSE LET a == Nth(DOMAIN T, n)
         IN EmittedInRecords(T, n - 1) \o Zeros(Len(a)) \o <<0, 1>>
                \o EmittedInEntries(T[a], Cardinality(DOMAIN T[a])) \o <<0, 1>>

\* the same per byte of the whole output: header, records, End pair
EmittedPairs(T) ==
    Zeros(HeaderLen) \o EmittedInRecords(T, Cardinality(DOMAIN T)) \o <<0, 1>>

\* C21: the encoder never creates a delimiter inside a number. In the
\* output for a table without reserved tag bytes in its authors and words,
\* the positions where the scanners recognize a marker are exactly the pad
\* zeros of the marker pairs the encoder emitted: none lies in a 4-byte or
\* 8-byte payload or in the header counts.
C21_NoDelimiterInNumber ==
    (encPc = "done" /\ NoReservedByte(table))
        => LET emitted == EmittedPairs(table)
           IN /\ Len(emitted) = Len(sink)
              /\ \A i \in 0..(Len(sink) - 1) :
                     (MarkerAt(sink, i) # "Unknown") <=> (emitted[i + 1] = 1)

=============================================================================
